---- MODULE Spec2Model ----
(***************************************************************************)
(* A model of GenMap's NSGA2 optimisation engine (NSGA2.py): the staged,   *)
(* penalty-gated routing of one candidate (__doRouting), the reference     *)
(* point API (set_ref_point), setup, the generational loop of              *)
(* runOptimization with its archive, stall counter and worker pool, and    *)
(* the parallel evaluation of one batch through pool.map.                  *)
(***************************************************************************)
EXTENDS Integers, Sequences, FiniteSets, TLC

(***************************************************************************)
(* Bounds of the model.                                                    *)
(***************************************************************************)
\* largest cost a single router stage returns (routing study)
MaxCost == 2
\* largest penalty cost of the router (routing study)
MaxPenalty == 2
\* evaluations applied to the one individual of the routing study
MaxEvals == 2
\* longest vector handed to set_ref_point
MaxRefLen == 3
\* largest number of objectives (len(self.__eval_list))
MaxObj == 2
\* largest "Select size"
MaxSelect == 3
\* largest "Maximum generation"
MaxGenLimit == 3
\* largest "Maximum stall"
MaxStallLimit == 1
\* largest batch handed to the worker pool (pool study)
MaxBatch == 3
\* largest number of worker processes, proc_num (pool study)
MaxProc == 2

(***************************************************************************)
(* The configurations explored besides those bounds.                       *)
(***************************************************************************)
\* "Initial population size"
InitPopSizes == {0, 1}
\* "Offspring size"
OffspringSizes == {0, 1}
\* "Random population size"
RandomSizes == {0, 1}
\* the number of initial mappings the Placer returns
InitMapCounts == {0, 1}

(***************************************************************************)
(* The external collaborators, as small tables.  A mapping (genome) is a   *)
(* number; the router's four stage costs and the objective scores are      *)
(* functions of the mapping.                                               *)
(***************************************************************************)
\* the mappings the Placer and the variation operators can produce
Mappings == 1..4

\* router.get_penalty_cost() in the engine runs
Penalty == 2

\* comp, const, input, output cost of routing a mapping:
\* 1 and 2 route for free, 3 routes within the penalty, 4 overshoots at once
StageCosts(m) ==
    CASE m = 1 -> <<0, 0, 0, 0>>
      [] m = 2 -> <<0, 0, 0, 0>>
      [] m = 3 -> <<1, 0, 1, 0>>
      [] OTHER -> <<3, 0, 0, 0>>

\* MapWidthEval.eval: the mapping width, max(x_coords) + 1 (at least 1)
MapWidth(m) ==
    CASE m = 1 -> 3
      [] m = 2 -> 3
      [] m = 3 -> 2
      [] OTHER -> 2

\* the values a caller puts in a reference point
RefVals == {2, 9}

VARIABLES
    \* ---- engine (NSGA2 instance) ----
    pc,               \* position of the caller / of runOptimization
    nobj,             \* len(self.__eval_list)
    hv_logging,       \* self.__hv_logging
    hv_refpoint,      \* self.__hv_refpoint: <<>> is None, <<v>> is the list v
    pool,             \* self.__pool: "none", "open", "closed"
    registered,       \* toolbox has evaluate/select registered
    params,           \* self.__params
    init_maps,        \* number of mappings generate_init_mappings returned
    pop,              \* self.pop
    offspring,        \* local offspring (after evaluation)
    hof,              \* local hof (tools.ParetoFront)
    prev_hof,         \* local prev_hof
    gen_count,
    stall_count,
    fitness_hof_log,
    size_before,      \* len(self.pop) when the current generation began
    result,           \* what runOptimization returned
    \* ---- last set_ref_point call ----
    ref_call,         \* [arg, before, ret, msg] of the last call, or the empty record marker
    \* ---- routing study of one individual ----
    r_ind,            \* the individual: m, valid, routing_cost, calls, fit
    r_penalty,        \* router.get_penalty_cost()
    r_preg,           \* CGRA.getPregNumber() > 0
    r_evals,          \* evaluations of the individual so far
    r_last,           \* the last evaluation: costs returned, individual before
    \* ---- one pool.map call of the pool study ----
    batch,            \* the individuals handed to pool.map, in input order
    task,             \* per input position: "queued", "running" or "done"
    slots,            \* per input position: <<>> or <<the worker's return value>>
    arrival,          \* the input positions in the order their results arrived
    \* ---- the search space ----
    space             \* the mappings the Placer and the variation operators produce

vars == <<pc, nobj, hv_logging, hv_refpoint, pool, registered, params, init_maps, pop,
          offspring, hof, prev_hof, gen_count, stall_count, fitness_hof_log,
          size_before, result, ref_call, r_ind, r_penalty, r_preg, r_evals, r_last,
          batch, task, slots, arrival, space>>

engineVars == <<pc, nobj, hv_logging, hv_refpoint, pool, registered, params,
                init_maps, pop,
                offspring, hof, prev_hof, gen_count, stall_count,
                fitness_hof_log, size_before, result, ref_call, space>>

routeVars == <<r_ind, r_penalty, r_preg, r_evals, r_last>>

poolVars == <<batch, task, slots, arrival>>

(***************************************************************************)
(* __doRouting (NSGA2.py 255-301).  The individual carries the log of the  *)
(* router calls made on it.                                                *)
(***************************************************************************)
Call(ind, name) == [ind EXCEPT !.calls = Append(@, name)]

OutputCall(pipelined) ==
    IF pipelined THEN "output_routing_preg" ELSE "output_routing"

\* variant: a total equal to the penalty already counts as overshooting
OvershootsInclusive(cost, penalty) == cost >= penalty

\* the test "if cost > penalty" after each stage (271, 277, 283, 294)
Overshoots(cost, penalty) == cost > penalty

\* variant: the penalty alone is stored
PenaltyOnly(cost, penalty) == penalty

\* variant: the penalty is added twice
PenalisedTwice(cost, penalty) == cost + penalty + penalty

\* "individual.routing_cost = cost + penalty" (272, 278, 284, 295)
Penalised(cost, penalty) == cost + penalty

__doRouting(ind, costs, penalty, pipelined) ==
    IF ind.valid THEN ind
    ELSE
      LET i1 == Call(ind, "comp_routing")
          c1 == 0 + costs[1]
      IN IF Overshoots(c1, penalty)
         THEN [i1 EXCEPT !.routing_cost = Penalised(c1, penalty)]
         ELSE
           LET i2 == Call(i1, "const_routing")
               c2 == c1 + costs[2]
           IN IF Overshoots(c2, penalty)
              THEN [i2 EXCEPT !.routing_cost = Penalised(c2, penalty)]
              ELSE
                LET i3 == Call(i2, "input_routing")
                    c3 == c2 + costs[3]
                IN IF Overshoots(c3, penalty)
                   THEN [i3 EXCEPT !.routing_cost = Penalised(c3, penalty)]
                   ELSE
                     LET i4 == Call(i3, OutputCall(pipelined))
                         c4 == c3 + costs[4]
                     IN IF Overshoots(c4, penalty)
                        THEN [i4 EXCEPT !.routing_cost = Penalised(c4, penalty)]
                        ELSE [Call(Call(i4, "clean_graph"), "validate")
                                EXCEPT !.routing_cost = c4, !.valid = TRUE]

(***************************************************************************)
(* The objectives.  The first is MapWidthEval; the second stands for an    *)
(* objective that reads the routing cost the router left on the            *)
(* individual.  Both are minimised (weights -1.0).                         *)
(***************************************************************************)
EvalScore(i, ind) == IF i = 1 THEN MapWidth(ind.m) ELSE ind.routing_cost

isMinimize(i) == TRUE

\* variant: the last registered objective is left out
eval_objectives_short(n, costs, penalty, pipelined, individual) ==
    LET routed == __doRouting(individual, costs, penalty, pipelined)
    IN [routed EXCEPT !.fit = [i \in 1..(n - 1) |-> EvalScore(i, routed)]]

\* eval_objectives (NSGA2.py 246-253) followed by the caller's
\* ind.fitness.values = fit (NSGA2.py 314-315, 338-339, 364-365)
eval_objectives(n, costs, penalty, pipelined, individual) ==
    LET routed == __doRouting(individual, costs, penalty, pipelined)
    IN [routed EXCEPT !.fit = [i \in 1..n |-> EvalScore(i, routed)]]

(***************************************************************************)
(* Routing study: one freshly created individual is evaluated up to        *)
(* MaxEvals times; every evaluation the router answers with any stage      *)
(* costs in 0..MaxCost.                                                    *)
(***************************************************************************)
CostVectors == [1..4 -> 0..MaxCost]

\* Individual.__init__: not valid, no routing done
NewIndividual(m) ==
    [m |-> m, valid |-> FALSE, routing_cost |-> 0, calls |-> <<>>, fit |-> <<>>]

NoEval == [costs |-> <<0, 0, 0, 0>>, before |-> NewIndividual(1)]

\* no pool.map call under way
PoolIdle ==
    /\ batch = <<>>
    /\ task = <<>>
    /\ slots = <<>>
    /\ arrival = <<>>

EngineIdle ==
    /\ pc = "study"
    /\ PoolIdle
    /\ space = Mappings
    /\ hv_logging = FALSE
    /\ hv_refpoint = <<>>
    /\ pool = "none"
    /\ registered = FALSE
    /\ params = [init |-> 0, off |-> 0, sel |-> 0, rnd |-> 0,
                 maxgen |-> 0, maxstall |-> 0]
    /\ init_maps = 0
    /\ pop = <<>>
    /\ offspring = <<>>
    /\ hof = <<>>
    /\ prev_hof = <<>>
    /\ gen_count = 0
    /\ stall_count = 0
    /\ fitness_hof_log = <<>>
    /\ size_before = 0
    /\ result = <<>>
    /\ ref_call = <<>>

InitRoute ==
    /\ EngineIdle
    /\ nobj \in 1..MaxObj
    /\ r_ind = NewIndividual(1)
    /\ r_penalty \in 0..MaxPenalty
    /\ r_preg \in BOOLEAN
    /\ r_evals = 0
    /\ r_last = NoEval

RouteEvaluate ==
    /\ r_evals < MaxEvals
    /\ \E costs \in CostVectors :
         /\ r_ind' = eval_objectives(nobj, costs, r_penalty, r_preg, r_ind)
         /\ r_last' = [costs |-> costs, before |-> r_ind]
    /\ r_evals' = r_evals + 1
    /\ UNCHANGED <<r_penalty, r_preg>>
    /\ UNCHANGED engineVars
    /\ UNCHANGED poolVars

NextRoute == RouteEvaluate

SpecRoute == InitRoute /\ [][NextRoute]_vars

(***************************************************************************)
(* The reference point API and setup.                                      *)
(***************************************************************************)
RefVectors == UNION {[1..n -> RefVals] : n \in 0..MaxRefLen}

\* the test guarding print("Too few of ref point values") (223-224)
TooFew(n_eval, n_ref) == n_eval < n_ref

\* variant: a vector that is too short is not refused
TooMuchNever(n_eval, n_ref) == FALSE

\* the test guarding print("Too much of ref point values") (226-227)
TooMuch(n_eval, n_ref) == n_eval > n_ref

\* what set_ref_point does with ref_point: the reference point stored after
\* the call, the value returned and the message printed
set_ref_point(ref_point) ==
    IF ~hv_logging
    THEN [refpoint |-> hv_refpoint, ret |-> TRUE, msg |-> "ignored"]
    ELSE IF TooFew(nobj, Len(ref_point))
    THEN [refpoint |-> hv_refpoint, ret |-> FALSE, msg |-> "Too few"]
    ELSE IF TooMuch(nobj, Len(ref_point))
    THEN [refpoint |-> hv_refpoint, ret |-> FALSE, msg |-> "Too much"]
    ELSE [refpoint |-> <<[i \in 1..Len(ref_point) |-> ref_point[i]]>>,
          ret |-> TRUE, msg |-> "stored"]

\* a call of set_ref_point by the engine's user, before or after setup
SetRefPoint ==
    /\ pc \in {"constructed", "setup_failed", "ready"}
    /\ \E v \in RefVectors :
         LET r == set_ref_point(v)
         IN /\ hv_refpoint' = r.refpoint
            /\ ref_call' = <<[arg |-> v, before |-> hv_refpoint,
                              after |-> r.refpoint, logging |-> hv_logging,
                              ret |-> r.ret, msg |-> r.msg]>>
    /\ UNCHANGED <<pc, nobj, hv_logging, pool, registered, params, init_maps,
                   pop, offspring, hof, prev_hof, gen_count, stall_count,
                   fitness_hof_log, size_before, result>>
    /\ UNCHANGED routeVars
    /\ UNCHANGED space
    /\ UNCHANGED poolVars

\* setup's "uni-objective optimization" switch (142-144)
UniObjective(n, logging) == IF n = 1 THEN FALSE ELSE logging

\* variant: one initial mapping is not enough
NoInitMapsOrOne(n) == n <= 1

\* "check if mapping initialization successed": len(init_maps) < 1 (172)
NoInitMaps(n) == n < 1

\* setup (121-207): the Placer returns n initial mappings
setup ==
    /\ pc \in {"constructed", "setup_failed"}
    /\ hv_logging' = UniObjective(nobj, hv_logging)
    /\ \E n \in InitMapCounts :
         /\ init_maps' = n
         /\ IF NoInitMaps(n)
            THEN /\ pc' = "setup_failed"
                 /\ UNCHANGED <<pool, registered>>
            ELSE /\ pool' = "open"
                 /\ registered' = TRUE
                 /\ pc' = "ready"
    /\ UNCHANGED <<nobj, hv_refpoint, params, pop, offspring, hof, prev_hof,
                   gen_count, stall_count, fitness_hof_log, size_before,
                   result, ref_call>>
    /\ UNCHANGED routeVars
    /\ UNCHANGED space
    /\ UNCHANGED poolVars

(***************************************************************************)
(* Fitness comparison, the Pareto archive and NSGA-II selection, as the    *)
(* engine uses them through deap.                                          *)
(***************************************************************************)
\* Fitness.wvalues: a value times the weight of its objective, -1.0 for a
\* minimised one and 1.0 otherwise (176)
WValue(fit, i) == IF isMinimize(i) THEN 0 - fit[i] ELSE fit[i]

\* variant: only the first objective is compared
DominatesFirstOnly(f1, f2) == WValue(f1, 1) > WValue(f2, 1)

\* Fitness.dominates
Dominates(f1, f2) ==
    /\ \A i \in 1..Len(f1) : WValue(f1, i) >= WValue(f2, i)
    /\ \E i \in 1..Len(f1) : WValue(f1, i) > WValue(f2, i)

\* Fitness.__gt__: lexicographic on the weighted values
RECURSIVE LexGreater(_, _, _)
LexGreater(f1, f2, i) ==
    IF i > Len(f1) THEN FALSE
    ELSE IF WValue(f1, i) # WValue(f2, i) THEN WValue(f1, i) > WValue(f2, i)
    ELSE LexGreater(f1, f2, i + 1)

\* operator.eq on two Individuals, ParetoFront's default "similar"
Similar(a, b) == a.m = b.m

\* the inner loop of ParetoFront.update for one individual
RECURSIVE ScanHof(_, _, _, _, _)
ScanHof(h, ind, i, dominates_one, to_remove) ==
    IF i > Len(h)
    THEN [is_dominated |-> FALSE, has_twin |-> FALSE, to_remove |-> to_remove]
    ELSE IF ~dominates_one /\ Dominates(h[i].fit, ind.fit)
    THEN [is_dominated |-> TRUE, has_twin |-> FALSE, to_remove |-> to_remove]
    ELSE IF Dominates(ind.fit, h[i].fit)
    THEN ScanHof(h, ind, i + 1, TRUE, to_remove \cup {i})
    ELSE IF ind.fit = h[i].fit /\ Similar(ind, h[i])
    THEN [is_dominated |-> FALSE, has_twin |-> TRUE, to_remove |-> to_remove]
    ELSE ScanHof(h, ind, i + 1, dominates_one, to_remove)

\* the members of sequence s at the positions not in rm, in order
RECURSIVE Without(_, _, _)
Without(s, rm, i) ==
    IF i > Len(s) THEN <<>>
    ELSE IF i \in rm THEN Without(s, rm, i + 1)
    ELSE <<s[i]>> \o Without(s, rm, i + 1)

\* HallOfFame.insert: kept sorted, best first
HofInsert(h, ind) ==
    LET p == Cardinality({j \in 1..Len(h) :
                 LexGreater(h[j].fit, ind.fit, 1)})
    IN SubSeq(h, 1, p) \o <<ind>> \o SubSeq(h, p + 1, Len(h))

HofUpdateOne(h, ind) ==
    LET r == ScanHof(h, ind, 1, FALSE, {})
        kept == Without(h, r.to_remove, 1)
    IN IF ~r.is_dominated /\ ~r.has_twin THEN HofInsert(kept, ind) ELSE kept

\* hof.update(self.pop) (343)
RECURSIVE HofUpdate(_, _, _)
HofUpdate(h, population, i) ==
    IF i > Len(population) THEN h
    ELSE HofUpdate(HofUpdateOne(h, population[i]), population, i + 1)

\* the positions of S whose fitness no other position of S dominates
FirstFront(inds, S) ==
    {i \in S : ~\E j \in S : Dominates(inds[j].fit, inds[i].fit)}

\* the positions in S, ascending, as a sequence
RECURSIVE Ascending(_)
Ascending(S) ==
    IF S = {} THEN <<>>
    ELSE LET lo == CHOOSE i \in S : \A j \in S : i <= j
         IN <<lo>> \o Ascending(S \ {lo})

\* variant: selection keeps every individual
selectEverything(inds, S, k) == {Ascending(S)}

\* tools.selNSGA2 (342): whole fronts while they fit, then k of the next
\* front.  The crowding-distance order inside that front is left open: any
\* k of its members may be the ones kept.  The result is the set of
\* position sequences selNSGA2 may return.
RECURSIVE selNSGA2(_, _, _)
selNSGA2(inds, S, k) ==
    IF k <= 0 \/ S = {} THEN {<<>>}
    ELSE LET F == FirstFront(inds, S)
         IN IF Cardinality(F) <= k
            THEN {Ascending(F) \o rest :
                     rest \in selNSGA2(inds, S \ F, k - Cardinality(F))}
            ELSE {Ascending(T) : T \in {T \in SUBSET F : Cardinality(T) = k}}

\* set([ind.fitness.values for ind in hof]) (347-348)
FitnessSet(h) == {h[i].fit : i \in 1..Len(h)}

\* variant: only the sets of fitness vectors are compared
StallAfterSetOnly(new_hof, old_hof, stall) ==
    IF FitnessSet(new_hof) = FitnessSet(old_hof) THEN stall + 1 ELSE 0

\* "check if there is an improvement" (345-354)
StallAfter(new_hof, old_hof, stall) ==
    IF Len(new_hof) = Len(old_hof)
    THEN IF FitnessSet(new_hof) = FitnessSet(old_hof) THEN stall + 1 ELSE 0
    ELSE 0

\* variant: nothing is filtered out
KeepAll(h, i) == SubSeq(h, i, Len(h))

\* [ind ... for ind in hof if ind.isValid()] (359, 394)
RECURSIVE ValidOnly(_, _)
ValidOnly(h, i) ==
    IF i > Len(h) THEN <<>>
    ELSE IF h[i].valid THEN <<h[i]>> \o ValidOnly(h, i + 1)
    ELSE ValidOnly(h, i + 1)

ValidFitnesses(h) ==
    LET v == ValidOnly(h, 1) IN [i \in 1..Len(v) |-> v[i].fit]

\* self.__toolbox.evaluate on one individual of the engine: the router
\* answers with the stage costs of the individual's mapping
Evaluate(ind) == eval_objectives(nobj, StageCosts(ind.m), Penalty, FALSE, ind)

(***************************************************************************)
(* The hypervolume of pygmo, on the integer grid: the number of unit cells *)
(* between the points and the reference point.                             *)
(***************************************************************************)
MaxOf(S) == CHOOSE x \in S : \A y \in S : y <= x

\* hv.refpoint(offset=0.1) (400): the worst value per objective plus a margin
\* (one grid unit here)
AutoRefPoint(points) ==
    [i \in 1..nobj |-> MaxOf({points[j][i] : j \in 1..Len(points)}) + 1]

\* hypervolume(fit).compute(ref) (401)
HvCompute(points, ref) ==
    Cardinality({c \in [1..Len(ref) -> 0..(MaxOf({ref[i] : i \in 1..Len(ref)}) - 1)] :
        \E j \in 1..Len(points) :
            \A i \in 1..Len(ref) : points[j][i] <= c[i] /\ c[i] < ref[i]})

\* pygmo refuses a reference point that some point is not strictly below
RefPointBad(points, ref) ==
    \E j \in 1..Len(points) : \E i \in 1..Len(ref) : points[j][i] >= ref[i]

RECURSIVE Flatten(_, _)
Flatten(log, i) ==
    IF i > Len(log) THEN <<>> ELSE log[i] \o Flatten(log, i + 1)

\* the snapshots of log that hold a point, in order
RECURSIVE NonEmptyOnly(_, _)
NonEmptyOnly(log, i) ==
    IF i > Len(log) THEN <<>>
    ELSE IF Len(log[i]) > 0 THEN <<log[i]>> \o NonEmptyOnly(log, i + 1)
    ELSE NonEmptyOnly(log, i + 1)

\* variant: generations with an empty snapshot get no entry
hypervolume_log_skipping(log, ref) ==
    LET kept == NonEmptyOnly(log, 1)
    IN [g \in 1..Len(kept) |-> HvCompute(kept[g], ref)]

\* hypervolume_log (402-403): one value per snapshot, 0 for an empty one
hypervolume_log(log, ref) ==
    [g \in 1..Len(log) |->
        IF Len(log[g]) > 0 THEN HvCompute(log[g], ref) ELSE 0]

(***************************************************************************)
(* runOptimization (304-405), one action per stretch between two batch     *)
(* evaluations.                                                            *)
(***************************************************************************)
\* the individuals variation and the Placer can hand to an evaluation
Fresh(ms) == {NewIndividual(m) : m \in ms}

\* runOptimization called on an engine whose setup did not succeed:
\* self.progress does not exist (308)
RunWithoutSetup ==
    /\ pc \in {"constructed", "setup_failed"}
    /\ pc' = "raised"
    /\ UNCHANGED <<nobj, hv_logging, hv_refpoint, pool, registered, params,
                   init_maps, pop, offspring, hof, prev_hof, gen_count,
                   stall_count, fitness_hof_log, size_before, result, ref_call>>
    /\ UNCHANGED routeVars
    /\ UNCHANGED space
    /\ UNCHANGED poolVars

\* 304-321: first population, evaluated as one batch
RunStart ==
    /\ pc = "ready"
    /\ hof' = <<>>
    /\ IF params.init = 0
       THEN \* zip(*[]) yields nothing to unpack (313)
            /\ pop' = <<>>
            /\ pc' = "raised"
            /\ UNCHANGED <<gen_count, stall_count, prev_hof, fitness_hof_log>>
       ELSE /\ \E first \in [1..params.init -> Fresh(1..init_maps)] :
                 pop' = [i \in 1..params.init |-> Evaluate(first[i])]
            /\ gen_count' = 0
            /\ stall_count' = 0
            /\ prev_hof' = <<>>
            /\ fitness_hof_log' = <<>>
            /\ pc' = "loop"
    /\ UNCHANGED <<nobj, hv_logging, hv_refpoint, pool, registered, params,
                   init_maps, offspring, size_before, result, ref_call>>
    /\ UNCHANGED routeVars
    /\ UNCHANGED space
    /\ UNCHANGED poolVars

\* variant: the loop goes on while either counter is below its limit
LoopGuardEither ==
    gen_count < params.maxgen \/ stall_count < params.maxstall

\* the loop test (324)
LoopGuard ==
    gen_count < params.maxgen /\ stall_count < params.maxstall

\* algorithms.varOr (332): each child is a varied clone (crossover or
\* mutation, a new unevaluated individual) or a member of the population
\* itself (reproduction)
Children == Fresh(space) \cup {pop[i] : i \in 1..Len(pop)}

\* 324-339: count the generation, make the offspring, evaluate them
BeginGeneration ==
    /\ pc = "loop"
    /\ LoopGuard
    /\ gen_count' = gen_count + 1
    /\ size_before' = Len(pop)
    /\ IF params.off = 0
       THEN \* varOr returns [], zip(*[]) yields nothing to unpack (337)
            /\ offspring' = <<>>
            /\ pc' = "raised"
       ELSE \/ /\ \E kids \in [1..params.off -> Children] :
                    offspring' = [i \in 1..params.off |-> Evaluate(kids[i])]
               /\ pc' = "evaluated"
            \/ \* crossover drawn with fewer than two parents:
               \* random.sample(population, 2) raises
               /\ Len(pop) < 2
               /\ offspring' = <<>>
               /\ pc' = "raised"
    /\ UNCHANGED <<nobj, hv_logging, hv_refpoint, pool, registered, params,
                   init_maps, pop, hof, prev_hof, stall_count,
                   fitness_hof_log, result, ref_call>>
    /\ UNCHANGED routeVars
    /\ UNCHANGED space
    /\ UNCHANGED poolVars

\* 341-354: select, update the archive and the stall counter
SelectAndArchive ==
    /\ pc = "evaluated"
    /\ \E chosen \in selNSGA2(pop \o offspring, 1..Len(pop \o offspring), params.sel) :
         LET next_pop == [i \in 1..Len(chosen) |-> (pop \o offspring)[chosen[i]]]
             next_hof == HofUpdate(hof, next_pop, 1)
         IN /\ pop' = next_pop
            /\ hof' = next_hof
            /\ stall_count' = StallAfter(next_hof, prev_hof, stall_count)
    /\ pc' = "checked"
    /\ UNCHANGED <<nobj, hv_logging, hv_refpoint, pool, registered, params,
                   init_maps, offspring, prev_hof, gen_count, fitness_hof_log,
                   size_before, result, ref_call>>
    /\ UNCHANGED routeVars
    /\ UNCHANGED space
    /\ UNCHANGED poolVars

\* 356-359: remember the archive, log its valid fitness vectors.  The
\* offspring list is not read again before line 337 replaces it.
RecordGeneration ==
    /\ pc = "checked"
    /\ prev_hof' = hof
    /\ fitness_hof_log' = Append(fitness_hof_log, ValidFitnesses(hof))
    /\ offspring' = <<>>
    /\ pc' = "selected"
    /\ UNCHANGED <<nobj, hv_logging, hv_refpoint, pool, registered, params,
                   init_maps, pop, hof, gen_count, stall_count,
                   size_before, result, ref_call>>
    /\ UNCHANGED routeVars
    /\ UNCHANGED space
    /\ UNCHANGED poolVars

\* variant: the random individuals are dropped
PopWithoutRandom(population, rnd_ind) == population

\* self.pop += rnd_ind (366)
PopPlusRandom(population, rnd_ind) == population \o rnd_ind

\* 361-381: random individuals, evaluated and appended; then the status
\* display, whose stats.compile(hof) takes numpy.min of the archive
InjectRandom ==
    /\ pc = "selected"
    /\ IF params.rnd = 0
       THEN \* random_population(0) is [], zip(*[]) yields nothing to unpack (363)
            /\ pc' = "raised"
            /\ UNCHANGED pop
       ELSE /\ \E rnd_ind \in [1..params.rnd -> Fresh(space)] :
                 pop' = PopPlusRandom(pop,
                            [i \in 1..params.rnd |-> Evaluate(rnd_ind[i])])
            /\ pc' = IF hof = <<>> THEN "raised" ELSE "loop"
    /\ UNCHANGED <<nobj, hv_logging, hv_refpoint, pool, registered, params,
                   init_maps, offspring, hof, prev_hof, gen_count, stall_count,
                   fitness_hof_log, size_before, result, ref_call>>
    /\ UNCHANGED routeVars
    /\ UNCHANGED space
    /\ UNCHANGED poolVars

\* 324, 383-405: the loop ends; release the pool, filter the archive,
\* compute the hypervolume series
LoopExit ==
    /\ pc = "loop"
    /\ ~LoopGuard
    /\ pool' = "closed"
    /\ LET valid_hof == ValidOnly(hof, 1)
           points == Flatten(fitness_hof_log, 1)
           ref == IF hv_refpoint = <<>> THEN AutoRefPoint(points) ELSE hv_refpoint[1]
       IN IF hv_logging /\ Len(valid_hof) > 0
          THEN /\ hv_refpoint' = <<ref>>
               /\ IF RefPointBad(points, ref)
                  THEN /\ pc' = "raised"
                       /\ UNCHANGED result
                  ELSE /\ pc' = "done"
                       /\ result' = <<[hof |-> valid_hof,
                                       hv |-> <<hypervolume_log(fitness_hof_log, ref)>>]>>
          ELSE /\ pc' = "done"
               /\ result' = <<[hof |-> valid_hof, hv |-> <<>>]>>
               /\ UNCHANGED hv_refpoint
    /\ UNCHANGED <<nobj, hv_logging, registered, params, init_maps, pop,
                   offspring, hof, prev_hof, gen_count, stall_count,
                   fitness_hof_log, size_before, ref_call>>
    /\ UNCHANGED routeVars
    /\ UNCHANGED space
    /\ UNCHANGED poolVars

(***************************************************************************)
(* The engine specifications.                                              *)
(***************************************************************************)
RouteIdle ==
    /\ r_ind = NewIndividual(1)
    /\ r_penalty = 0
    /\ r_preg = FALSE
    /\ r_evals = 0
    /\ r_last = NoEval

\* the state after NSGA2.__init__ (18-111)
Constructed ==
    /\ pc = "constructed"
    /\ hv_logging \in BOOLEAN
    /\ hv_refpoint = <<>>
    /\ pool = "none"
    /\ registered = FALSE
    /\ init_maps = 0
    /\ pop = <<>>
    /\ offspring = <<>>
    /\ hof = <<>>
    /\ prev_hof = <<>>
    /\ gen_count = 0
    /\ stall_count = 0
    /\ fitness_hof_log = <<>>
    /\ size_before = 0
    /\ result = <<>>
    /\ ref_call = <<>>
    /\ RouteIdle
    /\ PoolIdle

ParamSets ==
    [init : InitPopSizes, off : OffspringSizes, sel : 0..MaxSelect,
     rnd : RandomSizes, maxgen : 0..MaxGenLimit, maxstall : 0..MaxStallLimit]

\* the engine with two objectives and pygmo importable, any configuration
Init ==
    /\ Constructed
    /\ space = Mappings
    /\ hv_logging
    /\ nobj = 2
    /\ params \in ParamSets

Run ==
    \/ RunWithoutSetup
    \/ RunStart
    \/ BeginGeneration
    \/ SelectAndArchive
    \/ RecordGeneration
    \/ InjectRandom
    \/ LoopExit

Next == setup \/ Run

Spec == Init /\ [][Next]_vars

\* the engine's API in any order: any number of objectives, pygmo importable
\* or not, one small configuration
InitApi ==
    /\ Constructed
    /\ space = Mappings
    /\ nobj \in 1..MaxObj
    /\ params \in [init : {1}, off : {1}, sel : {1}, rnd : RandomSizes,
                    maxgen : {0, 1, 2}, maxstall : {1}]

NextApi == SetRefPoint \/ setup \/ Run

SpecApi == InitApi /\ [][NextApi]_vars

(***************************************************************************)
(* Scenario A: two objectives, every mapping of the search space routes    *)
(* for free and scores the same, so there is one fitness point.            *)
(***************************************************************************)
\* the mappings that route for free and are as wide as mapping 1
SinglePoint ==
    {m \in Mappings : /\ StageCosts(m) = <<0, 0, 0, 0>>
                      /\ MapWidth(m) = MapWidth(1)}

InitA ==
    /\ Constructed
    /\ space = SinglePoint
    /\ hv_logging
    /\ nobj = 2
    /\ params \in [init : {2}, off : {1}, sel : {1, 2}, rnd : RandomSizes,
                    maxgen : 0..MaxGenLimit, maxstall : 1..MaxStallLimit]

NextA == setup \/ Run

SpecA == InitA /\ [][NextA]_vars

(***************************************************************************)
(* Pool study: one call self.__toolbox.map(self.__toolbox.evaluate, batch) *)
(* (313, 337, 363), map being pool.map of a multiprocessing.Pool (180-181). *)
(* pool.map hands each position of the input to some worker process, keeps *)
(* each return value at the position of its input, and returns the list    *)
(* when every position has one.                                            *)
(***************************************************************************)
\* the individuals a batch can hold: new ones and ones evaluated before
Candidates == Fresh(Mappings) \cup {Evaluate(c) : c \in Fresh(Mappings)}

\* what eval_objectives returns in the worker (252-253): the scores, and the
\* worker's routed copy of the individual, its fitness not yet assigned
WorkerResult(ind) ==
    LET e == Evaluate(ind)
    IN [fit |-> e.fit, ind |-> [e EXCEPT !.fit = ind.fit]]

\* variant: each fitness goes to the next individual of the batch
ReattachShifted(results) ==
    [i \in 1..Len(results) |->
        [results[i].ind EXCEPT !.fit = results[(i % Len(results)) + 1].fit]]

\* fitnesses, inds = (list(l) for l in zip(*results)), then
\* "for ind, fit in zip(inds, fitnesses): ind.fitness.values = fit"
\* (313-315, 337-339, 363-365)
Reattach(results) ==
    [i \in 1..Len(results) |-> [results[i].ind EXCEPT !.fit = results[i].fit]]

InitPool ==
    /\ pc = "map_call"
    /\ nobj = 2
    /\ hv_logging = TRUE
    /\ hv_refpoint = <<>>
    /\ pool = "open"
    /\ registered = TRUE
    /\ params \in [init : {1}, off : {1}, sel : {1}, rnd : {1},
                    maxgen : {1}, maxstall : {1}]
    /\ init_maps = 1
    /\ pop = <<>>
    /\ offspring = <<>>
    /\ hof = <<>>
    /\ prev_hof = <<>>
    /\ gen_count = 0
    /\ stall_count = 0
    /\ fitness_hof_log = <<>>
    /\ size_before = 0
    /\ result = <<>>
    /\ ref_call = <<>>
    /\ RouteIdle
    /\ PoolIdle
    /\ space = Mappings

\* the coordinator calls map on a batch and blocks
MapDispatch ==
    /\ pc = "map_call"
    /\ \E n \in 1..MaxBatch :
         /\ batch' \in [1..n -> Candidates]
         /\ task' = [i \in 1..n |-> "queued"]
         /\ slots' = [i \in 1..n |-> <<>>]
    /\ arrival' = <<>>
    /\ pc' = "map_wait"
    /\ UNCHANGED <<nobj, hv_logging, hv_refpoint, pool, registered, params,
                   init_maps, pop, offspring, hof, prev_hof, gen_count,
                   stall_count, fitness_hof_log, size_before, result, ref_call>>
    /\ UNCHANGED routeVars
    /\ UNCHANGED space

\* a free worker process takes a queued position
WorkerStart ==
    /\ pc = "map_wait"
    /\ Cardinality({i \in 1..Len(task) : task[i] = "running"}) < MaxProc
    /\ \E i \in 1..Len(task) :
         /\ task[i] = "queued"
         /\ task' = [task EXCEPT ![i] = "running"]
    /\ UNCHANGED <<batch, slots, arrival>>
    /\ UNCHANGED engineVars
    /\ UNCHANGED routeVars

\* a worker finishes its evaluation; its return value arrives
WorkerFinish ==
    /\ pc = "map_wait"
    /\ \E i \in 1..Len(task) :
         /\ task[i] = "running"
         /\ task' = [task EXCEPT ![i] = "done"]
         /\ slots' = [slots EXCEPT ![i] = <<WorkerResult(batch[i])>>]
         /\ arrival' = Append(arrival, i)
    /\ UNCHANGED batch
    /\ UNCHANGED engineVars
    /\ UNCHANGED routeVars

\* every position has its return value: map returns, the coordinator
\* unpacks the list and assigns the fitnesses
MapCollect ==
    /\ pc = "map_wait"
    /\ \A i \in 1..Len(task) : task[i] = "done"
    /\ pop' = Reattach([i \in 1..Len(slots) |-> slots[i][1]])
    /\ pc' = "map_done"
    /\ UNCHANGED <<nobj, hv_logging, hv_refpoint, pool, registered, params,
                   init_maps, offspring, hof, prev_hof, gen_count,
                   stall_count, fitness_hof_log, size_before, result, ref_call>>
    /\ UNCHANGED routeVars
    /\ UNCHANGED space
    /\ UNCHANGED poolVars

NextPool == MapDispatch \/ WorkerStart \/ WorkerFinish \/ MapCollect

SpecPool == InitPool /\ [][NextPool]_vars

(***************************************************************************)
(* Claims about routing, stated on the last evaluation of the study.       *)
(***************************************************************************)
\* the last evaluation routed an individual that was invalid before it
RoutedInvalid == r_evals > 0 /\ ~r_last.before.valid

\* the collaborator calls the last evaluation made on the individual
NewCalls ==
    SubSeq(r_ind.calls, Len(r_last.before.calls) + 1, Len(r_ind.calls))

\* the running total after stage k of the last evaluation
RunningTotal(k) ==
    IF k = 1 THEN r_last.costs[1]
    ELSE IF k = 2 THEN r_last.costs[1] + r_last.costs[2]
    ELSE IF k = 3 THEN r_last.costs[1] + r_last.costs[2] + r_last.costs[3]
    ELSE r_last.costs[1] + r_last.costs[2] + r_last.costs[3] + r_last.costs[4]

StageOrder == <<"comp_routing", "const_routing", "input_routing", OutputCall(r_preg)>>

\* the first stage whose running total exceeds the penalty is k
FirstOvershoot(k) ==
    /\ RunningTotal(k) > r_penalty
    /\ \A j \in 1..(k - 1) : RunningTotal(j) <= r_penalty

\* C5: routing an invalid candidate runs the stages in the order comp, const,
\* input, output; when the running total first exceeds the penalty P after
\* stage k, exactly the first k stages were invoked, routing_cost is that
\* running total + P, clean_graph and validate were not called and the
\* candidate is still invalid.
C5_EarlyExit ==
    RoutedInvalid =>
        \A k \in 1..4 :
            FirstOvershoot(k) =>
                /\ NewCalls = SubSeq(StageOrder, 1, k)
                /\ r_ind.routing_cost = RunningTotal(k) + r_penalty
                /\ ~r_ind.valid

\* C5 witness: the computation stage alone overshoots a positive penalty,
\* with later stages that would have cost something
C5_Witness ==
    /\ RoutedInvalid
    /\ r_penalty > 0
    /\ r_last.costs[1] > r_penalty
    /\ r_last.costs[2] > 0
    /\ NewCalls = <<"comp_routing">>
    /\ r_ind.routing_cost = r_last.costs[1] + r_penalty

\* C6: after routing an invalid candidate it is valid iff the running total
\* was <= P at all four stage boundaries; when valid, routing_cost is the
\* plain sum of the four costs and the calls were the four stages, then
\* clean_graph once, then validate.
C6_ValidIff ==
    RoutedInvalid =>
        /\ r_ind.valid <=> (\A k \in 1..4 : RunningTotal(k) <= r_penalty)
        /\ r_ind.valid =>
             /\ r_ind.routing_cost = RunningTotal(4)
             /\ NewCalls = StageOrder \o <<"clean_graph", "validate">>

\* C6 witness: a candidate made valid with a positive routing cost
C6_Witness ==
    /\ RoutedInvalid
    /\ r_ind.valid
    /\ r_ind.routing_cost = r_penalty
    /\ r_penalty > 0
    /\ Len(NewCalls) = 6

(***************************************************************************)
(* Claims about the generational loop.                                     *)
(***************************************************************************)
Min(a, b) == IF a <= b THEN a ELSE b

\* C1: gen_count never exceeds "Maximum generation" and stall_count never
\* exceeds "Maximum stall"; a generation is started only while both are
\* strictly below their limits; once the loop has been left, one of the two
\* counters equals its limit.
C1_LoopTermination ==
    /\ [](/\ gen_count <= params.maxgen
          /\ stall_count <= params.maxstall
          /\ (pool = "closed" =>
                \/ gen_count = params.maxgen
                \/ stall_count = params.maxstall))
    /\ [][gen_count' # gen_count =>
            /\ gen_count' = gen_count + 1
            /\ gen_count < params.maxgen
            /\ stall_count < params.maxstall]_vars

\* C1 witness: the loop was left by the stall limit before the generation
\* limit was reached
C1_Witness ==
    /\ pc = "done"
    /\ pool = "closed"
    /\ stall_count = params.maxstall
    /\ gen_count < params.maxgen
    /\ gen_count >= 2

C3_AsClaimed ==
    pc = "checked" => Len(pop) = params.sel

\* C3 amended: right after selection the population has "Select size"
\* members, or all of population + offspring when those are fewer.
C3_SelectSize ==
    pc = "checked" =>
        Len(pop) = Min(params.sel, size_before + Len(offspring))

\* C3 witness: selection dropped somebody
C3_Witness ==
    /\ pc = "checked"
    /\ params.sel >= 1
    /\ Len(pop) = params.sel
    /\ size_before + Len(offspring) > params.sel

\* C4 as claimed: the population at the end of a generation is strictly
\* larger than at the end of the generation before.
C4_AsClaimed ==
    pc = "loop" /\ gen_count >= 2 => Len(pop) > size_before

\* C4 amended: the population at the end of a generation is never smaller
\* than at the end of the generation before: it is the selected part,
\* min(Select size, previous size + Offspring size), plus the "Random
\* population size" individuals appended, so it stops growing at
\* Select size + Random population size.
C4_SizeRule ==
    pc = "loop" /\ gen_count >= 1 =>
        /\ Len(pop) = Min(params.sel, size_before + params.off) + params.rnd
        /\ Len(pop) <= params.sel + params.rnd
        /\ gen_count >= 2 => Len(pop) >= size_before

\* C4 witness: a second generation ended with the population grown
C4_Witness ==
    /\ pc = "loop"
    /\ gen_count >= 2
    /\ params.rnd >= 1
    /\ Len(pop) > size_before

(***************************************************************************)
(* Claims about the reference point and quality tracking.                  *)
(***************************************************************************)
\* C7 as claimed: a vector of the wrong length leaves the reference point
\* unchanged and is answered False in every engine state; a vector of the
\* right length, with tracking enabled, is stored verbatim and answered True.
C7_AsClaimed ==
    ref_call # <<>> =>
        /\ Len(ref_call[1].arg) # nobj =>
             /\ ref_call[1].after = ref_call[1].before
             /\ ref_call[1].ret = FALSE
        /\ Len(ref_call[1].arg) = nobj /\ ref_call[1].logging =>
             /\ ref_call[1].after = <<ref_call[1].arg>>
             /\ ref_call[1].ret = TRUE

\* C7 amended: a vector of the wrong length leaves the reference point
\* unchanged; it is answered False when quality tracking is enabled and True
\* (the option is ignored) when it is disabled.  A vector of the right
\* length, with tracking enabled, is stored verbatim and answered True.
C7_RefPointLength ==
    ref_call # <<>> =>
        /\ Len(ref_call[1].arg) # nobj =>
             /\ ref_call[1].after = ref_call[1].before
             /\ ref_call[1].ret = ~ref_call[1].logging
        /\ Len(ref_call[1].arg) = nobj /\ ref_call[1].logging =>
             /\ ref_call[1].after = <<ref_call[1].arg>>
             /\ ref_call[1].ret = TRUE

\* C7 witness: a too short vector was refused while a reference point was
\* stored, and that point is still there
C7_Witness ==
    /\ ref_call # <<>>
    /\ ref_call[1].logging
    /\ Len(ref_call[1].arg) < nobj
    /\ ref_call[1].before # <<>>
    /\ hv_refpoint = ref_call[1].before
    /\ ref_call[1].ret = FALSE

\* C8: a refused vector with fewer entries than objectives is reported as
\* "Too few", one with more entries as "Too much".
C8_Direction ==
    ref_call # <<>> /\ ref_call[1].logging =>
        /\ Len(ref_call[1].arg) < nobj => ref_call[1].msg = "Too few"
        /\ Len(ref_call[1].arg) > nobj => ref_call[1].msg = "Too much"

\* C9: with exactly one objective no reference point is ever stored and
\* runOptimization returns None as the quality series.
C9_UniObjective ==
    nobj = 1 =>
        /\ hv_refpoint = <<>>
        /\ pc = "done" => result[1].hv = <<>>

\* C10: no execution of runOptimization ends, normally or by an exception,
\* with the worker pool allocated and not released.
C10_PoolReleased ==
    pc \in {"done", "raised"} => pool # "open"

(***************************************************************************)
(* Claims about what runOptimization returns.                              *)
(***************************************************************************)
\* C11 as claimed: with quality tracking enabled runOptimization returns a
\* hypervolume series with one entry per executed generation; None is
\* returned only when quality tracking is disabled.
C11_AsClaimed ==
    pc = "done" =>
        /\ hv_logging =>
              /\ result[1].hv # <<>>
              /\ Len(result[1].hv[1]) = gen_count
        /\ result[1].hv = <<>> => ~hv_logging

\* C11 amended: with quality tracking enabled and a non-empty returned
\* archive, runOptimization returns a series with one entry per executed
\* generation (as many as gen_count and as the fitness history), 0 for every
\* generation whose snapshot is empty; None is returned exactly when quality
\* tracking is disabled or the returned archive is empty.
C11_HvSeries ==
    pc = "done" =>
        /\ hv_logging /\ result[1].hof # <<>> =>
              /\ result[1].hv # <<>>
              /\ Len(result[1].hv[1]) = gen_count
              /\ Len(result[1].hv[1]) = Len(fitness_hof_log)
              /\ \A g \in 1..Len(fitness_hof_log) :
                    fitness_hof_log[g] = <<>> => result[1].hv[1][g] = 0
        /\ result[1].hv = <<>> <=> (~hv_logging \/ result[1].hof = <<>>)

\* C11 witness: a series was returned whose first generation had an empty
\* snapshot (value 0) and whose last generation had a positive hypervolume
C11_Witness ==
    /\ pc = "done"
    /\ hv_logging
    /\ result[1].hv # <<>>
    /\ gen_count = 2
    /\ fitness_hof_log[1] = <<>>
    /\ result[1].hv[1][1] = 0
    /\ result[1].hv[1][2] > 0

\* the members of a sequence, as a set
Members(h) == {h[i] : i \in 1..Len(h)}

\* C12: the archive returned by runOptimization holds only valid candidates,
\* each of them a member of the archive as it stood after the last
\* generation, in the archive's order, and every valid member of that
\* archive is returned: the final filter removes the invalid members and
\* neither adds nor reorders anything.
C12_FilteredArchive ==
    pc = "done" =>
        LET ret == result[1].hof
        IN /\ \A i \in 1..Len(ret) : ret[i].valid
           /\ \E at \in [1..Len(ret) -> 1..Len(hof)] :
                 /\ \A i \in 1..Len(ret) : ret[i] = hof[at[i]]
                 /\ \A i \in 1..Len(ret) : \A j \in 1..Len(ret) :
                       i < j => at[i] < at[j]
           /\ Len(ret) = Cardinality({i \in 1..Len(hof) : hof[i].valid})

\* C12 witness: the filter removed an invalid member that stood before a
\* valid one, which was returned
C12_Witness ==
    /\ pc = "done"
    /\ Len(hof) >= 2
    /\ ~hof[1].valid
    /\ hof[2].valid
    /\ result[1].hof # <<>>
    /\ result[1].hof[1] = hof[2]

(***************************************************************************)
(* Claims about the archive and the fitness vectors.                       *)
(***************************************************************************)
\* fitness f1 is no worse than f2 in every objective and better in one, each
\* objective read in its configured direction
ParetoBetter(f1, f2) ==
    /\ \A i \in 1..nobj :
          IF isMinimize(i) THEN f1[i] <= f2[i] ELSE f1[i] >= f2[i]
    /\ \E i \in 1..nobj :
          IF isMinimize(i) THEN f1[i] < f2[i] ELSE f1[i] > f2[i]

\* C13: the archive always holds mutually non-dominated fitness vectors, and
\* an archive update drops a member only when a candidate of the population
\* being merged dominates it.
C13_NonDominated ==
    /\ [](\A a \in Members(hof) : \A b \in Members(hof) :
             ~ParetoBetter(a.fit, b.fit))
    /\ [][pc = "evaluated" /\ pc' = "checked" =>
            \A gone \in Members(hof) \ Members(hof') :
                \E c \in Members(pop') : ParetoBetter(c.fit, gone.fit)]_vars

\* C13 witness: an update dropped a member of the archive and left an
\* archive of two
C13_Witness ==
    /\ pc = "checked"
    /\ Members(prev_hof) \ Members(hof) # {}
    /\ Len(hof) >= 2

\* the candidates the engine holds
Held ==
    Members(pop) \cup Members(offspring) \cup Members(hof)
        \cup Members(prev_hof)
        \cup (IF result = <<>> THEN {} ELSE Members(result[1].hof))

\* C14: every candidate the engine holds after an evaluation, valid or not,
\* has a fitness vector of as many entries as there are objectives, the
\* i-th being the score of the i-th objective for that candidate.
C14_FitnessLength ==
    \A c \in Held :
        /\ Len(c.fit) = nobj
        /\ c.fit[1] = MapWidth(c.m)
        /\ \A i \in 2..nobj : c.fit[i] = c.routing_cost

\* C14 witness: an invalid candidate with its two scores sits in the
\* population and in the archive
C14_Witness ==
    /\ nobj = 2
    /\ pc = "checked"
    /\ \E c \in Members(pop) \cap Members(hof) :
          /\ ~c.valid
          /\ c.fit = <<MapWidth(c.m), c.routing_cost>>
          /\ c.routing_cost > Penalty

(***************************************************************************)
(* Claims about the parallel evaluation of a batch.                        *)
(***************************************************************************)
\* C15: whatever the order in which the workers take and finish the
\* positions of a batch, the coordinator keeps, at each position, the
\* candidate dispatched there with the routing result and the fitness
\* computed from that candidate itself; and the coordinator changes the
\* population, the archive and the counters only when every position of the
\* batch has completed.
C15_Correspondence ==
    /\ [](pc = "map_done" =>
            /\ Len(pop) = Len(batch)
            /\ \A i \in 1..Len(batch) :
                  /\ pop[i].m = batch[i].m
                  /\ pop[i] = Evaluate(batch[i])
                  /\ pop[i].fit = [j \in 1..nobj |-> EvalScore(j, pop[i])])
    /\ [][pc = "map_wait" /\ <<pop, hof, prev_hof, gen_count, stall_count,
                                fitness_hof_log>>' #
                              <<pop, hof, prev_hof, gen_count, stall_count,
                                fitness_hof_log>>
            => \A i \in 1..Len(task) : task[i] = "done"]_vars

\* C15 witness: two candidates of different fitness were evaluated, the
\* second finished first, and each kept its own fitness
C15_Witness ==
    /\ pc = "map_done"
    /\ Len(batch) = 2
    /\ arrival = <<2, 1>>
    /\ batch[1].fit = <<>>
    /\ batch[2].fit = <<>>
    /\ pop[1].fit # pop[2].fit
    /\ pop[1].fit = Evaluate(batch[1]).fit

(***************************************************************************)
(* Further claims about routing, evaluation batches and setup.             *)
(***************************************************************************)
\* C16: a candidate that was evaluated before, whether it ended valid or
\* invalid, has no router stage invoked on it when it is evaluated again and
\* keeps its routing_cost and its validity.
C16_RoutedOnce ==
    r_evals >= 2 =>
        /\ NewCalls = <<>>
        /\ r_ind.routing_cost = r_last.before.routing_cost
        /\ r_ind.valid = r_last.before.valid

\* C17: the random injection of every generation completes normally and
\* appends exactly "Random population size" evaluated candidates, each with
\* its fitness vector, behind the selected members, which stay as they were.
C17_RandomInjection ==
    [][pc = "selected" =>
          /\ pc' = "loop"
          /\ Len(pop') = Len(pop) + params.rnd
          /\ SubSeq(pop', 1, Len(pop)) = pop
          /\ \A i \in (Len(pop) + 1)..Len(pop') : Len(pop'[i].fit) = nobj]_vars

\* a step that is a call of setup
SetupCalled ==
    /\ pc \in {"constructed", "setup_failed"}
    /\ pc' \in {"setup_failed", "ready"}

\* what a call of setup is claimed to do
SetupOutcome ==
    /\ pc' = "setup_failed" <=> init_maps' = 0
    /\ pc' = "setup_failed" => (pool' = "none" /\ ~registered')
    /\ pc' = "ready" => (pool = "none" /\ pool' = "open" /\ registered')

\* C18: setup fails exactly when the Placer produced no initial mapping, and
\* then leaves the engine without a pool and without registered operations;
\* otherwise it creates the pool, which did not exist before, registers the
\* operations and succeeds.
C18_SetupResult ==
    /\ [](pc = "setup_failed" => pool = "none" /\ ~registered)
    /\ [][SetupCalled => SetupOutcome]_vars

\* C18 witness: setup failed on an empty list of initial mappings and no
\* pool exists
C18_Witness ==
    /\ pc = "setup_failed"
    /\ init_maps = 0
    /\ pool = "none"
    /\ ~registered

\* C20: after routing, a candidate left invalid has routing_cost > 2 * P and
\* a candidate made valid has routing_cost <= P, so routing_cost > P holds
\* exactly for the invalid ones.
C20_CostSeparation ==
    r_evals > 0 =>
        /\ ~r_ind.valid => r_ind.routing_cost > 2 * r_penalty
        /\ r_ind.valid => r_ind.routing_cost <= r_penalty
        /\ r_ind.routing_cost > r_penalty <=> ~r_ind.valid

\* C20 witness: an invalid candidate whose cost is the smallest possible,
\* 2 * P + 1, for a positive P
C20_Witness ==
    /\ r_evals > 0
    /\ ~r_ind.valid
    /\ r_penalty > 0
    /\ r_ind.routing_cost = 2 * r_penalty + 1

(***************************************************************************)
(* Scenario A.                                                             *)
(***************************************************************************)
\* C19: in scenario A the archive holds mutually non-dominated fitness
\* vectors after every generation, and with Maximum generation >
\* Maximum stall + 1 a run that was started ends only by the stall counter
\* reaching Maximum stall, after generation Maximum stall + 1.
C19_ScenarioA ==
    /\ \A a \in Members(hof) : \A b \in Members(hof) :
          ~ParetoBetter(a.fit, b.fit)
    /\ (/\ pc \in {"done", "raised"}
        /\ pool # "none"
        /\ params.maxgen > params.maxstall + 1)
          => /\ pc = "done"
             /\ stall_count = params.maxstall
             /\ gen_count = params.maxstall + 1

====
